---- MODULE Spec2Model ----
(***************************************************************************)
(* Model of the ParselyCSV analysis engine (src/src/analysis/statistics.ts *)
(* holds statistics.ts, types.ts and analyzer.ts back to back) and of the  *)
(* POST /analyze/chart and POST /upload handlers of the server             *)
(* (src/unnamed/part_001).                                                 *)
(*                                                                         *)
(* A request carries a dataset: a sequence of rows, each row an object     *)
(* with the keys "a" and "b" (a key may be absent).  The engine is a set   *)
(* of static functions of the dataset; one action per function stores the  *)
(* call and what it returned.                                              *)
(*                                                                         *)
(* JavaScript values are modelled as follows.                              *)
(*   - a cell is a record [t, s, n]: t is "undefined" (key absent),        *)
(*     "null", "string" (s = its characters) or "number" (n = its value);  *)
(*   - a text is the sequence of its characters;                           *)
(*   - a number is a record [k, n, d]: k = "fin" is the rational n/d in    *)
(*     lowest terms with d > 0, k = "nan" is NaN, k = "inf" is n*Infinity. *)
(*     Arithmetic is exact (binary rounding is not modelled);              *)
(*   - a square root is kept exact as [sgn, n, d] = sgn * sqrt(n/d).       *)
(*                                                                         *)
(* The upload endpoint is the only part of the server that keeps state     *)
(* between requests: the files multer stores under uploads/.  Spec is the  *)
(* analysis endpoints on a dataset, UploadSpec the upload endpoint with    *)
(* its requests interleaving at the await of parseCSV.                     *)
(***************************************************************************)
EXTENDS Integers, Sequences, FiniteSets, TLC

VARIABLES data, call, ret, disk, uploads, now

vars == <<data, call, ret, disk, uploads, now>>

(* What the analysis endpoints work on, and what the upload endpoint does. *)
engineVars == <<data, call, ret>>

uploadVars == <<disk, uploads, now>>

----------------------------------------------------------------------------
(* Bounds of the model. *)

MaxRows == 2

(* The upload requests of a run, and the milliseconds Date.now() advances. *)
MaxUploads == 2

MaxTime == 1

----------------------------------------------------------------------------
(* JavaScript numbers. *)

RECURSIVE Gcd(_, _)
Gcd(x, y) == IF y = 0 THEN x ELSE Gcd(y, x % y)

Abs(x) == IF x < 0 THEN -x ELSE x

NaN == [k |-> "nan", n |-> 0, d |-> 1]

Infinity(sign) == [k |-> "inf", n |-> sign, d |-> 1]

Frac(p, q) ==
    LET g == Gcd(Abs(p), Abs(q))
        s == IF q < 0 THEN -1 ELSE 1
    IN  [k |-> "fin", n |-> (s * p) \div g, d |-> (s * q) \div g]

Int2Num(i) == [k |-> "fin", n |-> i, d |-> 1]

isNaN(x) == x.k = "nan"

Sign(i) == IF i < 0 THEN -1 ELSE IF i > 0 THEN 1 ELSE 0

NumAdd(x, y) ==
    IF isNaN(x) \/ isNaN(y) THEN NaN
    ELSE IF x.k = "inf" /\ y.k = "inf" THEN (IF x.n = y.n THEN x ELSE NaN)
    ELSE IF x.k = "inf" THEN x
    ELSE IF y.k = "inf" THEN y
    ELSE Frac(x.n * y.d + y.n * x.d, x.d * y.d)

NumNeg(x) == IF isNaN(x) THEN NaN ELSE [x EXCEPT !.n = -x.n]

NumSub(x, y) == NumAdd(x, NumNeg(y))

NumMul(x, y) ==
    IF isNaN(x) \/ isNaN(y) THEN NaN
    ELSE IF x.k = "inf" \/ y.k = "inf"
         THEN (IF x.n = 0 \/ y.n = 0 THEN NaN ELSE Infinity(Sign(x.n) * Sign(y.n)))
    ELSE Frac(x.n * y.n, x.d * y.d)

NumDiv(x, y) ==
    IF isNaN(x) \/ isNaN(y) THEN NaN
    ELSE IF x.k = "inf" THEN (IF y.k = "inf" THEN NaN
                              ELSE Infinity(x.n * (IF y.n < 0 THEN -1 ELSE 1)))
    ELSE IF y.k = "inf" THEN Int2Num(0)
    ELSE IF y.n = 0 THEN (IF x.n = 0 THEN NaN ELSE Infinity(Sign(x.n)))
    ELSE Frac(x.n * y.d, x.d * y.n)

(* x < y on numbers; every comparison with NaN is false. *)
NumLt(x, y) ==
    IF isNaN(x) \/ isNaN(y) THEN FALSE
    ELSE IF x.k = "inf" THEN x.n < 0 /\ ~(y.k = "inf" /\ y.n < 0)
    ELSE IF y.k = "inf" THEN y.n > 0
    ELSE x.n * y.d < y.n * x.d

NumGe(x, y) == ~isNaN(x) /\ ~isNaN(y) /\ ~NumLt(x, y)

(* Math.floor *)
MathFloor(x) == IF x.k = "fin" THEN Int2Num(x.n \div x.d) ELSE x

(* Math.ceil of a finite number, as an integer *)
CeilInt(x) == -((-x.n) \div x.d)

(* Math.min and Math.max of two numbers: NaN if either is NaN. *)
MathMin2(x, y) == IF isNaN(x) \/ isNaN(y) THEN NaN ELSE IF NumLt(y, x) THEN y ELSE x

MathMax2(x, y) == IF isNaN(x) \/ isNaN(y) THEN NaN ELSE IF NumLt(x, y) THEN y ELSE x

(* Math.min(...xs) and Math.max(...xs); of no arguments: +Infinity, -Infinity. *)
RECURSIVE MathMin(_)
MathMin(xs) == IF xs = <<>> THEN Infinity(1) ELSE MathMin2(Head(xs), MathMin(Tail(xs)))

RECURSIVE MathMax(_)
MathMax(xs) == IF xs = <<>> THEN Infinity(-1) ELSE MathMax2(Head(xs), MathMax(Tail(xs)))

(* Math.ceil(Math.sqrt(n)) for an integer n >= 0 *)
CeilSqrt(n) == CHOOSE r \in 0..n : r * r >= n /\ (r = 0 \/ (r - 1) * (r - 1) < n)

(* Number.prototype.toFixed(digits): the decimal text with `digits` fraction *)
(* digits, kept as the integer count of 10^-digits units (ties away from     *)
(* zero); NaN prints "NaN", an infinity prints "Infinity".                   *)
RECURSIVE Pow10(_)
Pow10(e) == IF e = 0 THEN 1 ELSE 10 * Pow10(e - 1)

toFixed(x, digits) ==
    IF x.k # "fin" THEN [text |-> IF isNaN(x) THEN "NaN" ELSE "Infinity", units |-> x.n]
    ELSE LET a == Abs(x.n) * Pow10(digits)
             q == (2 * a + x.d) \div (2 * x.d)
         IN  [text |-> "decimal", units |-> Sign(x.n) * q]

----------------------------------------------------------------------------
(* JavaScript texts: sequences of characters. *)

Digits == <<"0", "1", "2", "3", "4", "5", "6", "7", "8", "9">>

IsDigit(c) == \E i \in 1..10 : Digits[i] = c

DigitVal(c) == (CHOOSE i \in 1..10 : Digits[i] = c) - 1

Upper == <<"A", "B", "C", "D", "E", "F", "G", "H", "I", "J", "K", "L", "M",
           "N", "O", "P", "Q", "R", "S", "T", "U", "V", "W", "X", "Y", "Z">>

Lower == <<"a", "b", "c", "d", "e", "f", "g", "h", "i", "j", "k", "l", "m",
           "n", "o", "p", "q", "r", "s", "t", "u", "v", "w", "x", "y", "z">>

toLowerCase(str) ==
    [i \in 1..Len(str) |->
        IF \E j \in 1..26 : Upper[j] = str[i]
        THEN Lower[CHOOSE j \in 1..26 : Upper[j] = str[i]]
        ELSE str[i]]

IsWhiteSpace(c) == c \in {" ", "\t", "\n", "\r"}

RECURSIVE TrimStart(_)
TrimStart(str) ==
    IF str # <<>> /\ IsWhiteSpace(Head(str)) THEN TrimStart(Tail(str)) ELSE str

(* The longest prefix of str made of digits. *)
RECURSIVE DigitPrefix(_)
DigitPrefix(str) ==
    IF str # <<>> /\ IsDigit(Head(str)) THEN <<Head(str)>> \o DigitPrefix(Tail(str))
    ELSE <<>>

RECURSIVE DigitsValue(_)
DigitsValue(ds) ==
    IF ds = <<>> THEN 0
    ELSE 10 * DigitsValue(SubSeq(ds, 1, Len(ds) - 1)) + DigitVal(ds[Len(ds)])

Drop(str, k) == SubSeq(str, k + 1, Len(str))

(* Number -> text of an integer-valued number (Number::toString). *)
RECURSIVE NatToString(_)
NatToString(i) ==
    IF i < 10 THEN <<Digits[i + 1]>> ELSE NatToString(i \div 10) \o <<Digits[(i % 10) + 1]>>

NumberToString(x) ==
    IF isNaN(x) THEN <<"N", "a", "N">>
    ELSE IF x.n < 0 THEN <<"-">> \o NatToString(-x.n)
    ELSE NatToString(x.n)

----------------------------------------------------------------------------
(* Cells, rows and datasets. *)

Undefined == [t |-> "undefined", s |-> <<>>, n |-> 0]

Null == [t |-> "null", s |-> <<>>, n |-> 0]

Str(chars) == [t |-> "string", s |-> chars, n |-> 0]

NumCell(i) == [t |-> "number", s |-> <<>>, n |-> i]

ColumnNames == <<"a", "b">>

(* The cells a request may carry under each key. *)
CellsA ==
    { Null, Str(<<>>), Str(<<"1">>), NumCell(25), Str(<<"2", "5">>), Str(<<"3", "0">>),
      Str(<<"N", "Y", "C">>), Str(<<"2", "0", "2", "4", "-", "0", "1", "-", "1", "5">>) }

CellsB == { Undefined, Str(<<"N", "o">>), Str(<<"2", "5">>), Str(<<"3", "0">>) }

Rows == { [c \in {"a", "b"} |-> IF c = "a" THEN x ELSE y] : x \in CellsA, y \in CellsB }

(* row[columnName]: a key the row does not have reads undefined. *)
Get(row, columnName) == IF columnName \in DOMAIN row THEN row[columnName] ELSE Undefined

(* Object.keys(row): the keys the row has, in order. *)
ObjectKeys(row) == SelectSeq(ColumnNames, LAMBDA c : Get(row, c) # Undefined)

(* data.map(row => row[columnName]) *)
Column(rows, columnName) == [i \in 1..Len(rows) |-> Get(rows[i], columnName)]

(* String(val) *)
String(val) ==
    CASE val.t = "string" -> val.s
      [] val.t = "number" -> NumberToString(Int2Num(val.n))
      [] val.t = "null" -> <<"n", "u", "l", "l">>
      [] OTHER -> <<"u", "n", "d", "e", "f", "i", "n", "e", "d">>

(* parseFloat of a text: optional white space, optional sign, decimal digits *)
(* with an optional fraction; anything after that is ignored; NaN when no    *)
(* digit was read.  (No cell text of the model has an exponent or spells     *)
(* Infinity.)                                                                *)
(* The digits after a decimal point at the head of str, if any. *)
FractionDigits(str) ==
    IF str # <<>> /\ Head(str) = "." THEN DigitPrefix(Tail(str)) ELSE <<>>

(* The number with integer digits ip and fraction digits fp. *)
Magnitude(ip, fp) ==
    IF ip = <<>> /\ fp = <<>> THEN NaN
    ELSE Frac(DigitsValue(ip) * Pow10(Len(fp)) + DigitsValue(fp), Pow10(Len(fp)))

ParseUnsigned(str) == Magnitude(DigitPrefix(str), FractionDigits(Drop(str, Len(DigitPrefix(str)))))

ParseSigned(str) ==
    IF str # <<>> /\ Head(str) = "-" THEN NumNeg(ParseUnsigned(Tail(str)))
    ELSE IF str # <<>> /\ Head(str) = "+" THEN ParseUnsigned(Tail(str))
    ELSE ParseUnsigned(str)

ParseFloatText(str) == ParseSigned(TrimStart(str))

(* parseFloat(val) = parseFloat(String(val)) *)
parseFloat(val) == ParseFloatText(String(val))

(* !isNaN(Date.parse(str)) on Node.js (V8).  V8 accepts the ISO forms; its   *)
(* fallback parser reads a text that is one unsigned integer n as a month    *)
(* (1..12), or as a year when n is no day of a month (n = 0 or n > 31), and  *)
(* rejects a text without any number.                                        *)
IsIsoDate(str) ==
    /\ Len(str) \in {4, 7, 10}
    /\ \A i \in 1..Len(str) : IF i \in {5, 8} THEN str[i] = "-" ELSE IsDigit(str[i])
    /\ Len(str) >= 7 => DigitsValue(SubSeq(str, 6, 7)) \in 1..12
    /\ Len(str) = 10 => DigitsValue(SubSeq(str, 9, 10)) \in 1..31

DateParses(str) ==
    \/ IsIsoDate(str)
    \/ /\ str # <<>>
       /\ DigitPrefix(str) = str
       /\ LET n == DigitsValue(str) IN n <= 12 \/ n > 31

(* /^\d{4}-\d{2}-\d{2}/.test(str) *)
DatePattern(str) ==
    /\ Len(str) >= 10
    /\ \A i \in 1..10 : IF i \in {5, 8} THEN str[i] = "-" ELSE IsDigit(str[i])

(* A filter that forgets the empty text. *)
NotMissingKeepsEmptyText(val) == ~(val.t \in {"null", "undefined"})

(* val !== null && val !== undefined && val !== '' *)
NotMissing(val) == ~(val.t \in {"null", "undefined"} \/ (val.t = "string" /\ val.s = <<>>))

(* A coercion that turns what does not parse into 0 instead of dropping it. *)
NumericValuesOrZero(values) ==
    [i \in 1..Len(values) |->
        IF isNaN(parseFloat(values[i])) THEN Int2Num(0) ELSE parseFloat(values[i])]

(* values.map(parseFloat).filter(val => !isNaN(val)) *)
NumericValues(values) ==
    SelectSeq([i \in 1..Len(values) |-> parseFloat(values[i])], LAMBDA x : ~isNaN(x))

----------------------------------------------------------------------------
(* StatisticsAnalyzer.detectColumnType *)

BooleanWords ==
    { <<"t", "r", "u", "e">>, <<"f", "a", "l", "s", "e">>, <<"y", "e", "s">>,
      <<"n", "o">>, <<"1">>, <<"0">> }

(* The branch of the if / else-if chain a value takes. *)
ClassOfText(str) ==
    IF str \in BooleanWords THEN "boolean"
    ELSE IF DateParses(str) \/ DatePattern(str) THEN "date"
    ELSE IF ~isNaN(ParseFloatText(str)) THEN "numeric"
    ELSE "none"

ValueClass(val) == ClassOfText(toLowerCase(String(val)))

CountClass(values, class) == Len(SelectSeq(values, LAMBDA v : ValueClass(v) = class))

(* count / total > tenths / 10 *)
RatioAbove(count, total, tenths) == 10 * count > tenths * total

(* The type decided from the three counts (lines 85-95). *)
TypeOfCounts(total, numericCount, dateCount, booleanCount) ==
    IF RatioAbove(numericCount, total, 8) THEN "numeric"
    ELSE IF RatioAbove(dateCount, total, 8) THEN "date"
    ELSE IF RatioAbove(booleanCount, total, 8) THEN "boolean"
    ELSE IF \/ RatioAbove(numericCount, total, 3)
            \/ RatioAbove(dateCount, total, 3)
            \/ RatioAbove(booleanCount, total, 3) THEN "mixed"
    ELSE "string"

(* The counts taken over the non-missing values (lines 62-83). *)
TypeOfValues(values) ==
    IF Len(values) = 0 THEN "string"
    ELSE TypeOfCounts(Len(values), CountClass(values, "numeric"),
                      CountClass(values, "date"), CountClass(values, "boolean"))

detectColumnType(rows, columnName) ==
    TypeOfValues(SelectSeq(Column(rows, columnName), NotMissing))

----------------------------------------------------------------------------
(* simple-statistics, as statistics.ts calls it. *)

RECURSIVE Sum(_)
Sum(xs) == IF xs = <<>> THEN Int2Num(0) ELSE NumAdd(Head(xs), Sum(Tail(xs)))

(* ss.mean *)
Mean(xs) == NumDiv(Sum(xs), Int2Num(Len(xs)))

(* The sum of the products of the deviations from the means. *)
RECURSIVE SumDevProducts(_, _, _, _)
SumDevProducts(xs, mx, ys, my) ==
    IF xs = <<>> THEN Int2Num(0)
    ELSE NumAdd(NumMul(NumSub(Head(xs), mx), NumSub(Head(ys), my)),
                SumDevProducts(Tail(xs), mx, Tail(ys), my))

SumSquaredDeviations(xs) == SumDevProducts(xs, Mean(xs), xs, Mean(xs))

(* Math.sqrt of a rational x >= 0, kept exact: sgn * sqrt(n/d). *)
Sqrt(x) == [sgn |-> Sign(x.n), n |-> x.n, d |-> x.d]

(* ss.variance: the population variance, squared deviations over n. *)
Variance(xs) == NumDiv(SumSquaredDeviations(xs), Int2Num(Len(xs)))

(* ss.standardDeviation: 0 for a single value, else sqrt(ss.variance). *)
StandardDeviation(xs) == IF Len(xs) = 1 THEN Sqrt(Int2Num(0)) ELSE Sqrt(Variance(xs))

(* [...xs].sort((a, b) => a - b) *)
RECURSIVE Insert(_, _)
Insert(x, sorted) ==
    IF sorted = <<>> THEN <<x>>
    ELSE IF NumLt(x, Head(sorted)) THEN <<x>> \o sorted
    ELSE <<Head(sorted)>> \o Insert(x, Tail(sorted))

RECURSIVE SortAscending(_)
SortAscending(xs) ==
    IF xs = <<>> THEN <<>> ELSE Insert(xs[Len(xs)], SortAscending(SubSeq(xs, 1, Len(xs) - 1)))

(* ss.quantileSorted(sorted, quarters / 4), quarters in 1..3 *)
QuantileSorted(sorted, quarters) ==
    LET len == Len(sorted)
        idx4 == len * quarters
    IN  IF idx4 % 4 # 0 THEN sorted[(idx4 + 3) \div 4]
        ELSE IF len % 2 = 0
             THEN NumDiv(NumAdd(sorted[idx4 \div 4], sorted[(idx4 \div 4) + 1]), Int2Num(2))
        ELSE sorted[(idx4 \div 4) + 1]

(* ss.sampleCorrelation(xs, ys) = sampleCovariance / (sd(xs) * sd(ys)), both *)
(* deviations sample ones; 0 / 0 = NaN when a sequence is constant.  The     *)
(* n - 1 divisors cancel: r = sxy / sqrt(sxx * syy).                         *)
SignedRoot(sgn, q) == [nan |-> FALSE, sgn |-> sgn, n |-> q.n, d |-> q.d]

CorrelationOf(sxy, den) ==
    IF den.n = 0 THEN [nan |-> TRUE, sgn |-> 0, n |-> 0, d |-> 1]
    ELSE SignedRoot(Sign(sxy.n), NumDiv(NumMul(sxy, sxy), den))

SampleCorrelation(xs, ys) ==
    CorrelationOf(SumDevProducts(xs, Mean(xs), ys, Mean(ys)),
                  NumMul(SumSquaredDeviations(xs), SumSquaredDeviations(ys)))

----------------------------------------------------------------------------
(* StatisticsAnalyzer.analyzeColumn *)

(* An optional field of a result: <<>> when absent, <<v>> when set. *)
Absent == <<>>

Some(v) == <<v>>

RECURSIVE Distinct(_)
Distinct(xs) ==
    IF xs = <<>> THEN <<>>
    ELSE LET init == Distinct(SubSeq(xs, 1, Len(xs) - 1))
             last == xs[Len(xs)]
         IN  IF \E i \in 1..Len(init) : init[i] = last THEN init ELSE init \o <<last>>

(* An object key that is an array index (a canonical non-negative integer). *)
IsIndexKey(key) ==
    /\ key # <<>>
    /\ DigitPrefix(key) = key
    /\ (Len(key) > 1 => key[1] # "0")

RECURSIVE InsertKey(_, _)
InsertKey(key, sorted) ==
    IF sorted = <<>> THEN <<key>>
    ELSE IF DigitsValue(key) < DigitsValue(Head(sorted)) THEN <<key>> \o sorted
    ELSE <<Head(sorted)>> \o InsertKey(key, Tail(sorted))

RECURSIVE SortKeys(_)
SortKeys(keys) == IF keys = <<>> THEN <<>> ELSE InsertKey(Head(keys), SortKeys(Tail(keys)))

(* Object.keys(frequency): index keys ascending, then the others as inserted. *)
KeyOrder(keys) ==
    SortKeys(SelectSeq(keys, IsIndexKey)) \o SelectSeq(keys, LAMBDA key : ~IsIndexKey(key))

(* frequency[key]: how many of the texts are `key`. *)
Frequency(strs, key) == Len(SelectSeq(strs, LAMBDA x : x = key))

(* Math.max(...Object.values(frequency)) *)
MaxFreq(strs) ==
    CHOOSE m \in {Frequency(strs, strs[i]) : i \in 1..Len(strs)} :
        \A i \in 1..Len(strs) : Frequency(strs, strs[i]) <= m

(* keys.find(key => frequency[key] === maxFreq) *)
FindKey(strs, keys, maxFreq) ==
    keys[CHOOSE i \in 1..Len(keys) :
            /\ Frequency(strs, keys[i]) = maxFreq
            /\ \A j \in 1..(i - 1) : Frequency(strs, keys[j]) # maxFreq]

ModeOfTexts(strs) == FindKey(strs, KeyOrder(Distinct(strs)), MaxFreq(strs))

Mode(values) == ModeOfTexts([i \in 1..Len(values) |-> String(values[i])])

EmptySummary ==
    [count |-> 0, mean |-> Absent, median |-> Absent, mode |-> Absent, stdDev |-> Absent,
     min |-> Absent, max |-> Absent, range |-> Absent, quartiles |-> Absent]

(* Lines 26-41: the fields set when the column has numeric values. *)
NumericSummary(summary, numericValues, sorted) ==
    IF Len(numericValues) > 0
    THEN [summary EXCEPT
            !.mean = Some(Mean(numericValues)),
            !.median = Some(QuantileSorted(sorted, 2)),
            !.stdDev = Some(StandardDeviation(numericValues)),
            !.min = Some(MathMin(numericValues)),
            !.max = Some(MathMax(numericValues)),
            !.range = Some(NumSub(MathMax(numericValues), MathMin(numericValues))),
            !.quartiles = Some([q1 |-> QuantileSorted(sorted, 1),
                               q2 |-> QuantileSorted(sorted, 2),
                               q3 |-> QuantileSorted(sorted, 3)])]
    ELSE summary

(* Lines 12-53, on the non-missing values and the numeric ones among them. *)
SummaryOf(values, numericValues) ==
    IF Len(values) = 0 THEN EmptySummary
    ELSE [NumericSummary([EmptySummary EXCEPT !.count = Len(values)],
                         numericValues, SortAscending(numericValues))
            EXCEPT !.mode = Some(Mode(values))]

SummaryOfValues(values) == SummaryOf(values, NumericValues(values))

analyzeColumn(rows, columnName) ==
    SummaryOfValues(SelectSeq(Column(rows, columnName), NotMissing))

----------------------------------------------------------------------------
(* StatisticsAnalyzer.getColumnInfo *)

(* values.slice(0, count) *)
Slice(values, count) == SubSeq(values, 1, IF Len(values) < count THEN Len(values) ELSE count)

(* [...new Set(nonNullValues)]: the distinct values in order of first        *)
(* appearance; a Set tells a number from the text that spells it.            *)
UniqueValues(nonNullValues) == Distinct(nonNullValues)

(* Lines 109-116. *)
ColumnInfo(rows, columnName, values, nonNullValues, uniqueValues, type) ==
    [name |-> columnName,
     type |-> type,
     nullCount |-> Len(values) - Len(nonNullValues),
     uniqueCount |-> Len(uniqueValues),
     sampleValues |-> Slice(uniqueValues, 5),
     statistics |-> IF type = "numeric" THEN Some(analyzeColumn(rows, columnName))
                    ELSE Absent]

getColumnInfo(rows, columnName) ==
    ColumnInfo(rows, columnName,
               Column(rows, columnName),
               SelectSeq(Column(rows, columnName), NotMissing),
               UniqueValues(SelectSeq(Column(rows, columnName), NotMissing)),
               detectColumnType(rows, columnName))

----------------------------------------------------------------------------
(* DataAnalyzer.getDatasetInfo *)

DatasetInfo(rows, columnNames) ==
    [totalRows |-> Len(rows),
     totalColumns |-> Len(columnNames),
     columns |-> [i \in 1..Len(columnNames) |-> getColumnInfo(rows, columnNames[i])]]

getDatasetInfo(rows) ==
    IF Len(rows) = 0 THEN [totalRows |-> 0, totalColumns |-> 0, columns |-> <<>>]
    ELSE DatasetInfo(rows, ObjectKeys(rows[1]))

----------------------------------------------------------------------------
(* StatisticsAnalyzer.calculateCorrelation *)

(* What calculateCorrelation returns and a matrix cell holds: null, NaN, or *)
(* the real number sgn * sqrt(n/d).                                         *)
NullValue == [k |-> "null", sgn |-> 0, n |-> 0, d |-> 1]

NaNValue == [k |-> "nan", sgn |-> 0, n |-> 0, d |-> 1]

Real(sgn, n, d) == [k |-> "real", sgn |-> sgn, n |-> n, d |-> d]

(* The number ss.sampleCorrelation returned, as a value. *)
ValueOf(r) == IF r.nan THEN NaNValue ELSE Real(r.sgn, r.n, r.d)

(* Lines 126-134, on the two filtered sequences. *)
CorrelationOfValues(values1, values2) ==
    IF Len(values1) # Len(values2) \/ Len(values1) < 2 THEN NullValue
    ELSE ValueOf(SampleCorrelation(values1, values2))

calculateCorrelation(rows, col1, col2) ==
    CorrelationOfValues(NumericValues(Column(rows, col1)), NumericValues(Column(rows, col2)))

(* A fallback for null alone (correlation ?? 0): NaN is kept. *)
OrZeroForNullOnly(correlation) ==
    IF correlation.k = "null" THEN Real(0, 0, 1) ELSE correlation

(* correlation || 0 : null, NaN and 0 are falsy. *)
OrZero(correlation) ==
    IF correlation.k # "real" \/ correlation.sgn = 0 THEN Real(0, 0, 1) ELSE correlation

----------------------------------------------------------------------------
(* DataAnalyzer.generateCorrelationAnalysis *)

(* The names of the columns of the dataset profile classified numeric. *)
NamesOf(columns) == [i \in 1..Len(columns) |-> columns[i].name]

NumericColumnNames(rows) ==
    NamesOf(SelectSeq(getDatasetInfo(rows).columns, LAMBDA col : col.type = "numeric"))

Range(seq) == {seq[i] : i \in 1..Len(seq)}

(* The cell computed for every pair, the diagonal included. *)
CorrelationCellNoDiagonal(rows, name1, name2) ==
    OrZero(calculateCorrelation(rows, name1, name2))

(* Lines 324-329. *)
CorrelationCell(rows, name1, name2) ==
    IF name1 = name2 THEN Real(1, 1, 1)
    ELSE OrZero(calculateCorrelation(rows, name1, name2))

(* The result with the guard off by one: a matrix for a single column. *)
CorrelationResultOffByOne(rows, names) ==
    IF Len(names) < 1
    THEN [type |-> "correlation",
          description |-> "Not enough numeric columns for correlation analysis",
          message |-> Some("At least 2 numeric columns required for correlation analysis"),
          matrix |-> Absent,
          columns |-> Absent]
    ELSE [type |-> "correlation",
          description |-> "Correlation matrix for all numeric columns",
          message |-> Absent,
          matrix |-> Some([name1 \in Range(names) |->
                           [name2 \in Range(names) |->
                             CorrelationCell(rows, name1, name2)]]),
          columns |-> Some(names)]

(* The result for the numeric columns `names` (lines 306-345). *)
CorrelationResult(rows, names) ==
    IF Len(names) < 2
    THEN [type |-> "correlation",
          description |-> "Not enough numeric columns for correlation analysis",
          message |-> Some("At least 2 numeric columns required for correlation analysis"),
          matrix |-> Absent,
          columns |-> Absent]
    ELSE [type |-> "correlation",
          description |-> "Correlation matrix for all numeric columns",
          message |-> Absent,
          matrix |-> Some([name1 \in Range(names) |->
                           [name2 \in Range(names) |->
                             CorrelationCell(rows, name1, name2)]]),
          columns |-> Some(names)]

generateCorrelationAnalysis(rows) == CorrelationResult(rows, NumericColumnNames(rows))

----------------------------------------------------------------------------
(* DataAnalyzer.generateDistributionAnalysis *)

(* `${binStart.toFixed(digits)}-${binEnd.toFixed(digits)}` *)
BinLabel(binStart, binEnd, digits) ==
    [start |-> toFixed(binStart, digits), end |-> toFixed(binEnd, digits)]

(* Math.min(cap, Math.ceil(Math.sqrt(length))) *)
BinCount(cap, length) == IF CeilSqrt(length) < cap THEN CeilSqrt(length) ELSE cap

HasKey(bins, label) == \E i \in 1..Len(bins) : bins[i].label = label

(* bins[label] = 0 : a key already there keeps its place. *)
PutZero(bins, label) ==
    IF HasKey(bins, label)
    THEN [i \in 1..Len(bins) |->
            IF bins[i].label = label THEN [bins[i] EXCEPT !.count = Int2Num(0)] ELSE bins[i]]
    ELSE Append(bins, [label |-> label, count |-> Int2Num(0)])

(* bins[label]++ : on a key that is not there, undefined + 1 = NaN is stored. *)
Increment(bins, label) ==
    IF HasKey(bins, label)
    THEN [i \in 1..Len(bins) |->
            IF bins[i].label = label
            THEN [bins[i] EXCEPT !.count = NumAdd(bins[i].count, Int2Num(1))]
            ELSE bins[i]]
    ELSE Append(bins, [label |-> label, count |-> NaN])

(* The label of bin number i (from 0) *)
LabelOfBin(min, binSize, i, digits) ==
    BinLabel(NumAdd(min, NumMul(i, binSize)),
             NumAdd(min, NumMul(NumAdd(i, Int2Num(1)), binSize)), digits)

RECURSIVE EmptyBins(_, _, _)
EmptyBins(min, binSize, binCount) ==
    IF binCount = 0 THEN <<>>
    ELSE PutZero(EmptyBins(min, binSize, binCount - 1),
                 LabelOfBin(min, binSize, Int2Num(binCount - 1), 2))

(* Math.min(Math.floor((val - min) / binSize), binCount - 1) *)
BinIndex(val, min, binSize, binCount) ==
    MathMin2(MathFloor(NumDiv(NumSub(val, min), binSize)), Int2Num(binCount - 1))

RECURSIVE FillBins(_, _, _, _, _)
FillBins(bins, values, min, binSize, binCount) ==
    IF values = <<>> THEN bins
    ELSE FillBins(Increment(bins, LabelOfBin(min, binSize,
                                             BinIndex(Head(values), min, binSize, binCount), 2)),
                  Tail(values), min, binSize, binCount)

(* Lines 378-392, for the bins of width binSize from min. *)
HistogramOf(values, min, binSize, binCount) ==
    FillBins(EmptyBins(min, binSize, binCount), values, min, binSize, binCount)

(* (max - min) / binCount *)
BinSize(min, max, binCount) == NumDiv(NumSub(max, min), Int2Num(binCount))

(* Lines 373-392. *)
Histogram(values) ==
    HistogramOf(values, MathMin(values),
                BinSize(MathMin(values), MathMax(values), BinCount(20, Len(values))),
                BinCount(20, Len(values)))

DistributionResult(columnInfo, values) ==
    IF columnInfo.type # "numeric"
    THEN [type |-> "distribution",
          message |-> Some("Column must be numeric for distribution analysis"),
          statistics |-> Absent,
          histogram |-> Absent,
          values |-> Absent]
    ELSE [type |-> "distribution",
          message |-> Absent,
          statistics |-> columnInfo.statistics,
          histogram |-> Some(Histogram(values)),
          values |-> Some(Slice(values, 100))]

generateDistributionAnalysis(rows, columnName) ==
    DistributionResult(getColumnInfo(rows, columnName),
                       NumericValues(Column(rows, columnName)))

----------------------------------------------------------------------------
(* DataAnalyzer.generateChartData *)

(* An argument that was not given (undefined, or the empty text): !arg holds. *)
NotGiven == ""

(* values.filter(val => val >= binStart && val < binEnd).length *)
CountInBin(values, binStart, binEnd) ==
    Len(SelectSeq(values, LAMBDA val : NumGe(val, binStart) /\ NumLt(val, binEnd)))

(* min + i * binSize *)
BinEdge(min, binSize, i) == NumAdd(min, NumMul(Int2Num(i), binSize))

(* Lines 429-453, for the bins of width binSize from min. *)
BarChart(values, xColumn, min, binSize, binCount) ==
    [type |-> "bar",
     title |-> <<"Distribution of ", xColumn>>,
     labels |-> [j \in 1..binCount |->
                   BinLabel(BinEdge(min, binSize, j - 1), BinEdge(min, binSize, j), 1)],
     points |-> [j \in 1..binCount |->
                   CountInBin(values, BinEdge(min, binSize, j - 1), BinEdge(min, binSize, j))]]

(* Lines 423-453. *)
HistogramChart(values, xColumn) ==
    BarChart(values, xColumn, MathMin(values),
             BinSize(MathMin(values), MathMax(values), BinCount(10, Len(values))),
             BinCount(10, Len(values)))

ScatterChart(xValues, yValues, xColumn, yColumn) ==
    [type |-> "scatter",
     title |-> <<xColumn, " vs ", yColumn>>,
     labels |-> [i \in 1..Len(xValues) |-> <<"Point ", i>>],
     points |-> [i \in 1..Len(xValues) |->
                   [x |-> xValues[i],
                    y |-> IF i <= Len(yValues) THEN Some(yValues[i]) ELSE Absent]]]

(* The ChartData returned, or Absent for null. *)
generateChartData(rows, chartType, xColumn, yColumn) ==
    CASE chartType = "histogram" ->
            IF xColumn = NotGiven THEN Absent
            ELSE IF getColumnInfo(rows, xColumn).type # "numeric" THEN Absent
            ELSE Some(HistogramChart(NumericValues(Column(rows, xColumn)), xColumn))
      [] chartType = "scatter" ->
            IF xColumn = NotGiven \/ yColumn = NotGiven THEN Absent
            ELSE Some(ScatterChart(NumericValues(Column(rows, xColumn)),
                                  NumericValues(Column(rows, yColumn)), xColumn, yColumn))
      [] OTHER -> Absent

----------------------------------------------------------------------------
(* POST /analyze/chart *)

Response(status, body) == [status |-> status, body |-> body]

(* The response without the null check: 200 whatever was returned. *)
ChartResponseUnchecked(result) ==
    [called |-> TRUE, result |-> result,
     response |-> Response(200, IF result = Absent THEN <<>> ELSE result[1])]

(* Lines 145-149: the response to what generateChartData returned. *)
ChartResponse(result) ==
    IF result = Absent
    THEN [called |-> TRUE, result |-> result,
          response |-> Response(400, [error |-> "Invalid chart configuration"])]
    ELSE [called |-> TRUE, result |-> result,
          response |-> Response(200, result[1])]

(* hasData: the body carries an array under "data". *)
analyzeChartHandler(hasData, rows, chartType, xColumn, yColumn) ==
    IF ~hasData
    THEN [called |-> FALSE, result |-> Absent,
          response |-> Response(400, [error |-> "Data array is required"])]
    ELSE IF chartType = NotGiven
    THEN [called |-> FALSE, result |-> Absent,
          response |-> Response(400, [error |-> "Chart type is required"])]
    ELSE ChartResponse(generateChartData(rows, chartType, xColumn, yColumn))

----------------------------------------------------------------------------
(* POST /upload: multer stores the file part of the request under uploads/, *)
(* then the handler parses the stored file and deletes it.                  *)

(* str.endsWith(suffix) *)
EndsWith(str, suffix) ==
    /\ Len(str) >= Len(suffix)
    /\ SubSeq(str, Len(str) - Len(suffix) + 1, Len(str)) = suffix

(* The file part of a request: its declared type and its name. *)
FilePart(mimetype, originalname) == [mimetype |-> mimetype, originalname |-> originalname]

(* A request without the part csvFile. *)
NoFile == [mimetype |-> "", originalname |-> <<>>]

FileParts ==
    { FilePart(m, n) : m \in {"text/csv", "text/plain"},
                       n \in {<<"a", ".", "c", "s", "v">>, <<"a", ".", "t", "x", "t">>} }

(* file.mimetype === 'text/csv' || file.originalname.endsWith('.csv') *)
fileFilter(file) ==
    file.mimetype = "text/csv" \/ EndsWith(file.originalname, <<".", "c", "s", "v">>)

(* Date.now() + '-' + file.originalname, in uploads/ *)
filename(time, file) == NatToString(time) \o <<"-">> \o file.originalname

(* req.file.path of a request multer stored nothing for. *)
NoPath == <<>>

(* The response of a request that has not been answered yet. *)
NoResponse == [status |-> 0, body |-> <<>>]

(* What parseCSV may resolve with. *)
ParsedData ==
    { <<>>, <<[a |-> Str(<<"2", "5">>), b |-> Str(<<"N", "o">>)]>> }

(* An upload request: the path multer stored its file at, where the handler *)
(* stands, and the response sent.                                           *)
UploadRequest(path, pc, response) == [path |-> path, pc |-> pc, response |-> response]

(* The files under uploads/: each a path and the request whose bytes it     *)
(* holds.  Writing to a path that exists replaces the file.                 *)
StoreFile(files, path, owner) ==
    {f \in files : f.path # path} \cup {[path |-> path, owner |-> owner]}

Exists(files, path) == \E f \in files : f.path = path

(* fs.unlinkSync(path) on a path that exists. *)
Unlink(files, path) == {f \in files : f.path # path}

(* Lines 22-31 and 56-62: upload.single('csvFile') and the handler up to    *)
(* the await.  A part the filter refuses goes to the error handler of       *)
(* Express (500) and nothing is stored; without a part the handler answers  *)
(* 400; else the file is stored and parseCSV is awaited.                    *)
ReceiveUpload(file, time) ==
    IF file = NoFile
    THEN UploadRequest(NoPath, "done", Response(400, [error |-> "No file uploaded"]))
    ELSE IF ~fileFilter(file)
    THEN UploadRequest(NoPath, "done", Response(500, [error |-> "Only CSV files are allowed!"]))
    ELSE UploadRequest(filename(time, file), "await parseCSV", NoResponse)

PostUpload(file) ==
    /\ Len(uploads) < MaxUploads
    /\ uploads' = Append(uploads, ReceiveUpload(file, now))
    /\ disk' = IF file # NoFile /\ fileFilter(file)
               THEN StoreFile(disk, filename(now, file), Len(uploads) + 1)
               ELSE disk
    /\ UNCHANGED <<now, engineVars>>

(* Lines 62-71: parseCSV resolved with csvData.  unlinkSync throws when the *)
(* file is gone (a request given the same name deleted it), and the catch   *)
(* answers 500.                                                             *)
ParseCSVResolves(i, csvData) ==
    /\ uploads[i].pc = "await parseCSV"
    /\ IF Exists(disk, uploads[i].path)
       THEN /\ disk' = Unlink(disk, uploads[i].path)
            /\ uploads' = [uploads EXCEPT ![i] =
                  UploadRequest(uploads[i].path, "done",
                      Response(200, [message |-> "File uploaded and parsed successfully",
                                     data |-> csvData,
                                     rowCount |-> Len(csvData)]))]
       ELSE /\ disk' = disk
            /\ uploads' = [uploads EXCEPT ![i] =
                  UploadRequest(uploads[i].path, "done",
                      Response(500, [error |-> "Error processing CSV file"]))]
    /\ UNCHANGED <<now, engineVars>>

(* Lines 47 and 72-75: parseCSV rejected; the catch answers 500. *)
ParseCSVRejects(i) ==
    /\ uploads[i].pc = "await parseCSV"
    /\ uploads' = [uploads EXCEPT ![i] =
          UploadRequest(uploads[i].path, "done",
              Response(500, [error |-> "Error processing CSV file"]))]
    /\ UNCHANGED <<disk, now, engineVars>>

(* A millisecond passes: Date.now() advances. *)
Tick ==
    /\ now < MaxTime
    /\ now' = now + 1
    /\ UNCHANGED <<disk, uploads, engineVars>>

----------------------------------------------------------------------------
(* The state machine: a client builds the dataset of a request row by row   *)
(* and makes one call on it; `call` is that call and `ret` what it          *)
(* returned.  The engine keeps no state between calls, so the next request  *)
(* starts from the dataset alone (AddRow clears the call).  The analysis    *)
(* endpoints touch no file, the upload endpoint no dataset.                 *)

NoCall == [fn |-> "none", args |-> <<>>]

Columns == {"a", "b", "c"}

ChartTypes == {NotGiven, "histogram", "scatter", "pie"}

XColumns == {NotGiven, "a", "b"}

YColumns == {NotGiven, "b"}

Init ==
    /\ data = <<>>
    /\ call = NoCall
    /\ ret = <<>>
    /\ disk = {}
    /\ uploads = <<>>
    /\ now = 0

(* The client appends a row to the dataset of its next request. *)
AddRow(row) ==
    /\ Len(data) < MaxRows
    /\ data' = Append(data, row)
    /\ call' = NoCall
    /\ ret' = <<>>
    /\ UNCHANGED uploadVars

DetectColumnType(columnName) ==
    /\ call = NoCall
    /\ call' = [fn |-> "detectColumnType", args |-> <<columnName>>]
    /\ ret' = detectColumnType(data, columnName)
    /\ UNCHANGED <<data, uploadVars>>

AnalyzeColumn(columnName) ==
    /\ call = NoCall
    /\ call' = [fn |-> "analyzeColumn", args |-> <<columnName>>]
    /\ ret' = analyzeColumn(data, columnName)
    /\ UNCHANGED <<data, uploadVars>>

GetColumnInfo(columnName) ==
    /\ call = NoCall
    /\ call' = [fn |-> "getColumnInfo", args |-> <<columnName>>]
    /\ ret' = getColumnInfo(data, columnName)
    /\ UNCHANGED <<data, uploadVars>>

GenerateCorrelationAnalysis ==
    /\ call = NoCall
    /\ call' = [fn |-> "generateCorrelationAnalysis", args |-> <<>>]
    /\ ret' = generateCorrelationAnalysis(data)
    /\ UNCHANGED <<data, uploadVars>>

GenerateDistributionAnalysis(columnName) ==
    /\ call = NoCall
    /\ call' = [fn |-> "generateDistributionAnalysis", args |-> <<columnName>>]
    /\ ret' = generateDistributionAnalysis(data, columnName)
    /\ UNCHANGED <<data, uploadVars>>

PostAnalyzeChart(hasData, chartType, xColumn, yColumn) ==
    /\ call = NoCall
    /\ call' = [fn |-> "POST /analyze/chart",
                args |-> <<hasData, chartType, xColumn, yColumn>>]
    /\ ret' = analyzeChartHandler(hasData, data, chartType, xColumn, yColumn)
    /\ UNCHANGED <<data, uploadVars>>

Next ==
    \/ \E row \in Rows : AddRow(row)
    \/ \E columnName \in Columns : DetectColumnType(columnName)
    \/ \E columnName \in Columns : AnalyzeColumn(columnName)
    \/ \E columnName \in Columns : GetColumnInfo(columnName)
    \/ GenerateCorrelationAnalysis
    \/ \E columnName \in Columns : GenerateDistributionAnalysis(columnName)
    \/ \E hasData \in BOOLEAN, chartType \in ChartTypes,
          xColumn \in XColumns, yColumn \in YColumns :
            PostAnalyzeChart(hasData, chartType, xColumn, yColumn)

Spec == Init /\ [][Next]_vars

(* The upload endpoint: requests arrive while earlier ones await parseCSV. *)
UploadNext ==
    \/ \E file \in FileParts \cup {NoFile} : PostUpload(file)
    \/ \E i \in 1..Len(uploads), csvData \in ParsedData : ParseCSVResolves(i, csvData)
    \/ \E i \in 1..Len(uploads) : ParseCSVRejects(i)
    \/ Tick

UploadSpec == Init /\ [][UploadNext]_vars

----------------------------------------------------------------------------
(* The claims.  Each is stated on the call just made and what it returned;  *)
(* the reference quantities are computed from the dataset, apart from the   *)
(* code path they are compared with.                                        *)

Called(fn) == call.fn = fn

(* The column the call names (its first argument). *)
CalledColumn == call.args[1]

(* The cell of row i under the column, undefined when the key is absent. *)
CellAt(i, columnName) ==
    IF columnName \in DOMAIN data[i] THEN data[i][columnName] ELSE Undefined

(* The rows whose cell is neither null, undefined/absent nor the empty text. *)
PresentRows(columnName) ==
    { i \in 1..Len(data) :
        /\ CellAt(i, columnName).t \in {"string", "number"}
        /\ CellAt(i, columnName) # Str(<<>>) }

(* The rows whose cell coerces to a number. *)
CoercibleRows(columnName) ==
    { i \in 1..Len(data) : ~isNaN(parseFloat(CellAt(i, columnName))) }

(* The largest and the smallest coerced value of the column. *)
ColumnMax(columnName) ==
    CHOOSE x \in {parseFloat(CellAt(i, columnName)) : i \in CoercibleRows(columnName)} :
        \A j \in CoercibleRows(columnName) : ~NumLt(x, parseFloat(CellAt(j, columnName)))

ColumnMin(columnName) ==
    CHOOSE x \in {parseFloat(CellAt(i, columnName)) : i \in CoercibleRows(columnName)} :
        \A j \in CoercibleRows(columnName) : ~NumLt(parseFloat(CellAt(j, columnName)), x)

(* C1: the profile getColumnInfo returns has nullCount + (number of cells   *)
(* that are not null, undefined/absent or the empty text) = number of rows; *)
(* a row without the column key counts as one null.                         *)
C1_NullCountComplement ==
    Called("getColumnInfo") =>
        ret.nullCount + Cardinality(PresentRows(CalledColumn)) = Len(data)

(* C1 witness: a profile of column b over two rows, one of them without the *)
(* key b and one with a value, so that nullCount is 1.                      *)
C1_Witness ==
    /\ Called("getColumnInfo")
    /\ CalledColumn = "b"
    /\ Len(data) = 2
    /\ data[1]["b"] = Undefined
    /\ data[2]["b"] = Str(<<"2", "5">>)
    /\ ret.nullCount = 1

(* The column type as the specification words it: every non-missing value   *)
(* is tested against ALL three checks, and the fractions decide.            *)
IsBooleanLike(val) == toLowerCase(String(val)) \in BooleanWords

IsDateLike(val) ==
    DateParses(toLowerCase(String(val))) \/ DatePattern(toLowerCase(String(val)))

IsNumericLike(val) == ~isNaN(parseFloat(val))

IndependentType(columnName) ==
    LET present == PresentRows(columnName)
        total == Cardinality(present)
        numeric == Cardinality({i \in present : IsNumericLike(CellAt(i, columnName))})
        date == Cardinality({i \in present : IsDateLike(CellAt(i, columnName))})
        boolean == Cardinality({i \in present : IsBooleanLike(CellAt(i, columnName))})
    IN  IF total = 0 THEN "string"
        ELSE IF 10 * numeric > 8 * total THEN "numeric"
        ELSE IF 10 * date > 8 * total THEN "date"
        ELSE IF 10 * boolean > 8 * total THEN "boolean"
        ELSE IF 10 * numeric > 3 * total \/ 10 * date > 3 * total \/ 10 * boolean > 3 * total
             THEN "mixed"
        ELSE "string"

(* C2: detectColumnType tests each non-missing value against the boolean,   *)
(* date and numeric checks independently and decides by the fractions:      *)
(* string if no value, numeric above 0.8, else date above 0.8, else boolean *)
(* above 0.8, else mixed if any fraction is above 0.3, else string; so a    *)
(* column of "1"/"0" values is numeric.                                     *)
C2_IndependentChecks ==
    Called("detectColumnType") => ret = IndependentType(CalledColumn)

(* The sum of the counts of a histogram. *)
RECURSIVE SumCounts(_)
SumCounts(bins) ==
    IF bins = <<>> THEN Int2Num(0) ELSE NumAdd(Head(bins).count, SumCounts(Tail(bins)))

(* Every count is a whole number >= 0. *)
WholeCounts(bins) ==
    \A i \in 1..Len(bins) :
        bins[i].count.k = "fin" /\ bins[i].count.d = 1 /\ bins[i].count.n >= 0

(* The bin count of the distribution analysis for n values. *)
ExpectedBins(n) == IF CeilSqrt(n) < 20 THEN CeilSqrt(n) ELSE 20

(* The label of the last bin: it ends at the maximum and is one width wide. *)
LastBinLabel(columnName) ==
    LET max == ColumnMax(columnName)
        min == ColumnMin(columnName)
        n == Cardinality(CoercibleRows(columnName))
        width == NumDiv(NumSub(max, min), Int2Num(ExpectedBins(n)))
    IN  [start |-> toFixed(NumSub(max, width), 2), end |-> toFixed(max, 2)]

HistogramReturned == Called("generateDistributionAnalysis") /\ ret.histogram # Absent

(* C3: in the histogram of generateDistributionAnalysis the bin counts sum  *)
(* to the number of numeric-coercible values, every value is counted in     *)
(* exactly one bin, and the maximum is counted in the last bin.             *)
C3_HistogramCountsEveryValue ==
    HistogramReturned =>
        /\ WholeCounts(ret.histogram[1])
        /\ SumCounts(ret.histogram[1]) = Int2Num(Cardinality(CoercibleRows(CalledColumn)))
        /\ \E i \in 1..Len(ret.histogram[1]) :
              /\ ret.histogram[1][i].label = LastBinLabel(CalledColumn)
              /\ ret.histogram[1][i].count.n >= 1

(* C3 restricted to the columns whose values are not all equal (max > min), *)
(* where the bin width is not 0.                                           *)
C3_HoldsWhenNotConstant ==
    (HistogramReturned /\ ColumnMax(CalledColumn) # ColumnMin(CalledColumn)) =>
        /\ WholeCounts(ret.histogram[1])
        /\ SumCounts(ret.histogram[1]) = Int2Num(Cardinality(CoercibleRows(CalledColumn)))
        /\ \E i \in 1..Len(ret.histogram[1]) :
              /\ ret.histogram[1][i].label = LastBinLabel(CalledColumn)
              /\ ret.histogram[1][i].count.n >= 1

(* C4: a distribution request on a constant numeric column (max = min)      *)
(* yields a histogram whose labels are finite numbers and whose counts are  *)
(* whole numbers summing to the number of values: no NaN label or count.    *)
C4_ConstantColumnFallback ==
    (HistogramReturned /\ ColumnMax(CalledColumn) = ColumnMin(CalledColumn)) =>
        /\ \A i \in 1..Len(ret.histogram[1]) :
              /\ ret.histogram[1][i].label.start.text = "decimal"
              /\ ret.histogram[1][i].label.end.text = "decimal"
        /\ WholeCounts(ret.histogram[1])
        /\ SumCounts(ret.histogram[1]) = Int2Num(Cardinality(CoercibleRows(CalledColumn)))

CorrelationMatrixReturned == Called("generateCorrelationAnalysis") /\ ret.matrix # Absent

CoercedValues(columnName) ==
    SelectSeq([i \in 1..Len(data) |-> parseFloat(CellAt(i, columnName))],
              LAMBDA x : ~isNaN(x))

(* The sample standard deviation: squared deviations over n - 1. *)
SampleStandardDeviation(xs) ==
    Sqrt(NumDiv(SumSquaredDeviations(xs), Int2Num(Len(xs) - 1)))

(* C6: analyzeColumn reports stdDev as the sample standard deviation        *)
(* (squared deviations over n - 1), and leaves it undefined when the column *)
(* has fewer than 2 numeric values.                                         *)
C6_SampleStdDev ==
    Called("analyzeColumn") =>
        IF Len(CoercedValues(CalledColumn)) >= 2
        THEN ret.stdDev = Some(SampleStandardDeviation(CoercedValues(CalledColumn)))
        ELSE ret.stdDev = Absent

(* The non-missing cells of a column whose text no earlier non-missing cell *)
(* has, in row order.                                                       *)
FirstByText(columnName) ==
    LET firsts == { i \in PresentRows(columnName) :
                      \A j \in PresentRows(columnName) :
                          j < i => String(CellAt(j, columnName)) # String(CellAt(i, columnName)) }
    IN  SelectSeq([i \in 1..Len(data) |-> IF i \in firsts THEN CellAt(i, columnName) ELSE Null],
                  LAMBDA cell : cell # Null)

(* C7: uniqueCount is the number of distinct non-missing values, two values *)
(* being equal when their texts are equal (the number 1 and the text "1"    *)
(* count once); sampleValues is the first 5 of them in order of first       *)
(* appearance, so it has min(5, uniqueCount) elements, none missing.        *)
C7_UniqueByText ==
    Called("getColumnInfo") =>
        /\ ret.uniqueCount = Len(FirstByText(CalledColumn))
        /\ ret.sampleValues = SubSeq(FirstByText(CalledColumn), 1,
                                     IF ret.uniqueCount < 5 THEN ret.uniqueCount ELSE 5)

(* The column has a non-missing value and none of them coerces to a number. *)
NoNumericValue(columnName) ==
    /\ PresentRows(columnName) # {}
    /\ CoercibleRows(columnName) = {}

NumericFieldsAbsent(summary) ==
    /\ summary.mean = Absent
    /\ summary.median = Absent
    /\ summary.stdDev = Absent
    /\ summary.min = Absent
    /\ summary.max = Absent
    /\ summary.range = Absent
    /\ summary.quartiles = Absent

(* C8 as stated: when a column has a non-missing value but none coerces to  *)
(* a number, the summary of analyzeColumn has only count populated; mean,   *)
(* median, mode, stdDev, min, max, range and quartiles are all absent.      *)
C8_OnlyCount ==
    (Called("analyzeColumn") /\ NoNumericValue(CalledColumn)) =>
        /\ ret.count = Cardinality(PresentRows(CalledColumn))
        /\ NumericFieldsAbsent(ret)
        /\ ret.mode = Absent

(* C8 amended: in that case count (the number of non-missing values) and    *)
(* mode (the text of a most frequent non-missing value) are populated; mean,*)
(* median, stdDev, min, max, range and quartiles are absent.                *)
C8_CountAndMode ==
    (Called("analyzeColumn") /\ NoNumericValue(CalledColumn)) =>
        /\ ret.count = Cardinality(PresentRows(CalledColumn))
        /\ NumericFieldsAbsent(ret)
        /\ ret.mode # Absent
        /\ \E i \in PresentRows(CalledColumn) :
              /\ ret.mode = Some(String(CellAt(i, CalledColumn)))
              /\ \A j \in PresentRows(CalledColumn) :
                    Cardinality({k \in PresentRows(CalledColumn) :
                        String(CellAt(k, CalledColumn)) = String(CellAt(j, CalledColumn))})
                    <= Cardinality({k \in PresentRows(CalledColumn) :
                        String(CellAt(k, CalledColumn)) = String(CellAt(i, CalledColumn))})

(* C8 witness: the summary of column a over the rows "NYC", "NYC".          *)
C8_Witness ==
    /\ Called("analyzeColumn")
    /\ CalledColumn = "a"
    /\ Len(data) = 2
    /\ data[1]["a"] = Str(<<"N", "Y", "C">>)
    /\ data[2]["a"] = Str(<<"N", "Y", "C">>)
    /\ ret.count = 2
    /\ ret.mode = Some(<<"N", "Y", "C">>)

(* The keys of the first row whose column is classified numeric. *)
NumericKeys ==
    IF Len(data) = 0 THEN {}
    ELSE { c \in {"a", "b"} : CellAt(1, c) # Undefined /\ detectColumnType(data, c) = "numeric" }

(* C9: with fewer than 2 numeric columns (the empty dataset included)       *)
(* generateCorrelationAnalysis returns a result of type correlation that    *)
(* carries the message and no matrix; with 2 or more it returns a matrix    *)
(* with one row and one column per numeric column.                          *)
C9_MessageOrMatrix ==
    Called("generateCorrelationAnalysis") =>
        /\ ret.type = "correlation"
        /\ IF Cardinality(NumericKeys) < 2
           THEN ret.message # Absent /\ ret.matrix = Absent
           ELSE /\ ret.message = Absent
                /\ ret.matrix # Absent
                /\ DOMAIN ret.matrix[1] = NumericKeys
                /\ \A A \in NumericKeys : DOMAIN ret.matrix[1][A] = NumericKeys

(* C9 witness: a correlation request on a dataset whose only numeric column *)
(* is a gets the message.                                                   *)
C9_Witness ==
    /\ Called("generateCorrelationAnalysis")
    /\ NumericKeys = {"a"}
    /\ ret.message # Absent

(* The chart configurations the claim calls invalid. *)
InvalidChartConfig(chartType, xColumn, yColumn) ==
    \/ chartType \notin {"histogram", "scatter"}
    \/ /\ chartType = "histogram"
       /\ (xColumn = NotGiven \/ detectColumnType(data, xColumn) # "numeric")
    \/ /\ chartType = "scatter"
       /\ (xColumn = NotGiven \/ yColumn = NotGiven)

(* C10: generateChartData returns null exactly for the invalid              *)
(* configurations (a kind other than histogram or scatter, histogram        *)
(* without x or on a non-numeric x, scatter without both x and y), and the  *)
(* chart endpoint answers every null with 400, never 200 with an empty body.*)
C10_NullExactlyWhenInvalid ==
    Called("POST /analyze/chart") =>
        /\ ret.called = (call.args[1] /\ call.args[2] # NotGiven)
        /\ ret.called =>
              ((ret.result = Absent)
                  = InvalidChartConfig(call.args[2], call.args[3], call.args[4]))
        /\ ret.result = Absent => ret.response.status = 400
        /\ ret.response.status # 400 =>
              /\ ret.response.status = 200
              /\ ret.result # Absent
              /\ ret.response.body = ret.result[1]

(* C10 witness: a histogram request on the non-numeric column a was handed  *)
(* to generateChartData, which returned null, and was answered 400.         *)
C10_Witness ==
    /\ Called("POST /analyze/chart")
    /\ call.args = <<TRUE, "histogram", "a", NotGiven>>
    /\ Len(data) = 1
    /\ data[1]["a"] = Str(<<"N", "Y", "C">>)
    /\ ret.called
    /\ ret.result = Absent
    /\ ret.response.status = 400

(* The upload requests that stored a temporary file and have been answered. *)
AnsweredStored ==
    { i \in 1..Len(uploads) : uploads[i].path # NoPath /\ uploads[i].response # NoResponse }

(* The file request i stored is still under uploads/. *)
LeftBehind(i) == \E f \in disk : f.owner = i

(* C11: for every /upload request that stored a temporary file, the file    *)
(* has been deleted by the time the response is sent, when parsing succeeds *)
(* and also when parsing fails and the handler answers 500; no sequence of  *)
(* requests leaves a temporary file behind.                                 *)
C11_TempFileDeletedOnEveryPath ==
    /\ \A i \in AnsweredStored : ~LeftBehind(i)
    /\ (\A i \in 1..Len(uploads) : uploads[i].pc = "done") => disk = {}

(* C11 restricted to the requests answered 200: their file is deleted. *)
C11_DeletedWhenParsed ==
    \A i \in AnsweredStored : uploads[i].response.status = 200 => ~LeftBehind(i)

(* The chart call was handed to generateChartData with this kind and        *)
(* returned a payload.                                                      *)
ChartReturned(chartType) ==
    /\ Called("POST /analyze/chart")
    /\ ret.called
    /\ call.args[2] = chartType
    /\ ret.result # Absent

RECURSIVE SumPoints(_)
SumPoints(points) == IF points = <<>> THEN 0 ELSE Head(points) + SumPoints(Tail(points))

(* The rows whose cell coerces to the largest value of the column. *)
MaximumRows(columnName) ==
    { i \in CoercibleRows(columnName) :
        parseFloat(CellAt(i, columnName)) = ColumnMax(columnName) }

(* C12: in the bar payload generateChartData builds for kind histogram the  *)
(* final bin absorbs the column maximum: the maximum is counted in the last *)
(* bin, and the frequency counts sum to the number of numeric-coercible     *)
(* values of the x column.                                                  *)
C12_ChartLastBinAbsorbsMaximum ==
    ChartReturned("histogram") =>
        /\ SumPoints(ret.result[1].points) = Cardinality(CoercibleRows(call.args[3]))
        /\ ret.result[1].points[Len(ret.result[1].points)]
              >= Cardinality(MaximumRows(call.args[3]))

(* The values below the maximum are each counted once: the counts sum to    *)
(* the number of values that are not the maximum (columns with max > min).  *)
C12_CountsAllButMaximum ==
    (ChartReturned("histogram") /\ ColumnMax(call.args[3]) # ColumnMin(call.args[3])) =>
        SumPoints(ret.result[1].points)
            = Cardinality(CoercibleRows(call.args[3]) \ MaximumRows(call.args[3]))

(* All the coerced values of the column are the same number. *)
ConstantColumn(columnName) ==
    \A i \in CoercibleRows(columnName), j \in CoercibleRows(columnName) :
        parseFloat(CellAt(i, columnName)) = parseFloat(CellAt(j, columnName))

(* The cases of the fallback: the filtered sequences differ in length or    *)
(* have fewer than 2 elements, or the coefficient is no number (a sequence  *)
(* without variance: 0 / 0).                                                *)
NoCoefficient(A, B) ==
    \/ Cardinality(CoercibleRows(A)) # Cardinality(CoercibleRows(B))
    \/ Cardinality(CoercibleRows(A)) < 2
    \/ ConstantColumn(A)
    \/ ConstantColumn(B)

(* C13: for two distinct numeric columns the recorded coefficient is 0      *)
(* whenever the independently filtered numeric sequences differ in length   *)
(* or have fewer than 2 elements, and whenever the Pearson computation      *)
(* yields no number; the analysis returns, and the matrix cell is the       *)
(* number 0, never null or NaN.                                             *)
C13_FallbackZero ==
    CorrelationMatrixReturned =>
        \A A \in DOMAIN ret.matrix[1] : \A B \in DOMAIN ret.matrix[1] :
            /\ ret.matrix[1][A][B].k = "real"
            /\ (A # B /\ NoCoefficient(A, B)) => ret.matrix[1][A][B] = Real(0, 0, 1)

(* C13 witness: a matrix over a and b where a is constant (25, 25) and b is *)
(* not (25, 30), so that the coefficient is 0 / 0; the cell holds 0.        *)
C13_Witness ==
    /\ CorrelationMatrixReturned
    /\ DOMAIN ret.matrix[1] = {"a", "b"}
    /\ Cardinality(CoercibleRows("a")) = 2
    /\ Cardinality(CoercibleRows("b")) = 2
    /\ ConstantColumn("a")
    /\ ~ConstantColumn("b")
    /\ ret.matrix[1]["a"]["b"] = Real(0, 0, 1)

(* Matrices are also reached where the sequences differ in length. *)
C13_WitnessUnequalLengths ==
    /\ CorrelationMatrixReturned
    /\ DOMAIN ret.matrix[1] = {"a", "b"}
    /\ Cardinality(CoercibleRows("a")) # Cardinality(CoercibleRows("b"))
    /\ ret.matrix[1]["a"]["b"] = Real(0, 0, 1)

(* C14: every point of the scatter payload generateChartData builds is a    *)
(* pair of two numbers, also when the y column has fewer numeric-coercible  *)
(* cells than the x column: no point has an undefined or non-numeric x or   *)
(* y, and the number of labels equals the number of points.                 *)
C14_ScatterPointsAreNumberPairs ==
    ChartReturned("scatter") =>
        /\ Len(ret.result[1].labels) = Len(ret.result[1].points)
        /\ \A i \in 1..Len(ret.result[1].points) :
              /\ ret.result[1].points[i].x.k = "fin"
              /\ ret.result[1].points[i].y # Absent
              /\ ret.result[1].points[i].y[1].k = "fin"

(* C14 restricted to the requests whose y column has at least as many       *)
(* numeric-coercible cells as the x column.                                 *)
C14_HoldsWhenYNotShorter ==
    (/\ ChartReturned("scatter")
     /\ Cardinality(CoercibleRows(call.args[4])) >= Cardinality(CoercibleRows(call.args[3]))) =>
        /\ Len(ret.result[1].labels) = Len(ret.result[1].points)
        /\ \A i \in 1..Len(ret.result[1].points) :
              /\ ret.result[1].points[i].x.k = "fin"
              /\ ret.result[1].points[i].y # Absent
              /\ ret.result[1].points[i].y[1].k = "fin"
====
